---- MODULE Spec2Model ----
(***************************************************************************)
(* Model of filter-intel-xml.py: a script that reads the Intel intrinsics  *)
(* XML, keeps the intrinsics of one technology and prints, for each, its   *)
(* signature and the machine instructions related to it.                   *)
(*                                                                         *)
(* Strings are sequences of one-character strings, so that slicing         *)
(* ([:-2]), lower() and concatenation are computed as Python computes      *)
(* them.  An ANSI colour code is one element of such a sequence.  A        *)
(* node's attrib dictionary is a function whose DOMAIN is the set of       *)
(* attributes the node carries.                                            *)
(***************************************************************************)
EXTENDS Integers, Sequences, FiniteSets, TLC

VARIABLES
    SKIPZERO,   \* the module-level option (line 5)
    argv,       \* sys.argv
    pc,         \* position of the script: "args", "parse", "loop", "exit"
    tech,       \* the tag the loop filters by
    filename,   \* the path handed to xml.parse
    parsed,     \* TRUE once xml.parse has returned a tree
    doc,        \* tree.getroot(): the sequence of the root's children
    i,          \* index of the child the for loop handles next
    out,        \* what was written to standard output, one record per print
    err,        \* the exception that ended the run, "none" if there is none
    code        \* the exit status, meaningful when pc = "exit"

vars == <<SKIPZERO, argv, pc, tech, filename, parsed, doc, i, out, err, code>>

----------------------------------------------------------------------------
(* Bounds of the model.                                                    *)

\* Largest number of nodes (entries, parameters, instructions) of a document.
MaxNodes == 4
\* Largest number of command-line arguments after the technology tag.
MaxExtra == 1

----------------------------------------------------------------------------
(* Characters and constants of the script.                                 *)

COLORS == TRUE

NL == "\n"
BS == "\\b"

CBLUE  == IF COLORS THEN <<"ESC[94m">> ELSE <<>>
CGREEN == IF COLORS THEN <<"ESC[92m">> ELSE <<>>
CEND   == IF COLORS THEN <<"ESC[0m">> ELSE <<>>
CBEIGE == IF COLORS THEN <<"ESC[36m">> ELSE <<>>

UsageMessage == <<"N", "o", "t", " ", "e", "n", "o", "u", "g", "h", " ",
                  "a", "r", "g", "u", "m", "e", "n", "t", "s">>

UpperCase == <<"A", "B", "C", "D", "E", "F", "G", "H", "I", "J", "K", "L", "M",
               "N", "O", "P", "Q", "R", "S", "T", "U", "V", "W", "X", "Y", "Z">>
LowerCase == <<"a", "b", "c", "d", "e", "f", "g", "h", "i", "j", "k", "l", "m",
               "n", "o", "p", "q", "r", "s", "t", "u", "v", "w", "x", "y", "z">>

\* str.lower() on one character
LowerChar(c) ==
    IF \E n \in 1..Len(UpperCase) : UpperCase[n] = c
    THEN LowerCase[CHOOSE n \in 1..Len(UpperCase) : UpperCase[n] = c]
    ELSE c

\* str.lower()
Lower(s) == [n \in 1..Len(s) |-> LowerChar(s[n])]

\* s[:-1]: the slice drops one character instead of two
StripLast2_One(s) == SubSeq(s, 1, IF Len(s) >= 1 THEN Len(s) - 1 ELSE 0)

\* s[:-2]
StripLast2(s) == SubSeq(s, 1, IF Len(s) >= 2 THEN Len(s) - 2 ELSE 0)

----------------------------------------------------------------------------
(* The inputs: command lines and documents.                                *)

Restrict(f, S) == [k \in S |-> f[k]]

Prog == <<"f", "i", "l", "t", "e", "r">>
Path == <<"d", ".", "x", "m", "l">>
Extra == <<"x">>

\* Values of a second argument: the empty string and two tags that differ
\* in case only.
Tags == {<<>>, <<"S", "2">>, <<"s", "2">>}

RECURSIVE Extras(_)
Extras(n) == IF n = 0 THEN {<<>>}
             ELSE Extras(n - 1) \cup {<<Extra>> \o x : x \in Extras(n - 1)}

Argvs == {<<Prog>>, <<Prog, Path>>}
         \cup {<<Prog, Path, t>> : t \in Tags}
         \cup {<<Prog, Path, <<"S", "2">>, Extra>> \o x : x \in Extras(MaxExtra - 1)}

\* Entries of two technologies, an entry without tech and one without name.
EntryAttribs == {[name |-> <<"f", "g">>, tech |-> <<"S", "2">>],
                 [name |-> <<"f", "g">>, tech |-> <<"A">>],
                 Restrict([name |-> <<"f", "g">>], {"name"}),
                 Restrict([tech |-> <<"S", "2">>], {"tech"})}

ParamAttribs == {[type |-> <<"T">>, varname |-> <<"a">>],
                 Restrict([type |-> <<"U">>], {"type"}),
                 Restrict([varname |-> <<"a">>], {"varname"})}

InstrAttribs == {[name |-> <<"P">>, form |-> <<"x">>],
                 Restrict([name |-> <<"Q">>], {"name"}),
                 Restrict([form |-> <<"x">>], {"form"})}

ChildNodes == {[tag |-> "parameter", attrib |-> a] : a \in ParamAttribs}
              \cup {[tag |-> "instruction", attrib |-> a] : a \in InstrAttribs}

ChildSeqs(n) == UNION {[1..m -> ChildNodes] : m \in 0..n}

Entries(n) == {[attrib |-> a, children |-> c] :
                   a \in EntryAttribs, c \in ChildSeqs(n - 1)}

\* The documents of at most n nodes.
RECURSIVE DocsUpTo(_)
DocsUpTo(n) ==
    IF n = 0 THEN {<<>>}
    ELSE {<<>>} \cup UNION {{<<e>> \o d : d \in DocsUpTo(n - 1 - Len(e.children))} :
                               e \in Entries(n)}

Docs == DocsUpTo(MaxNodes)

----------------------------------------------------------------------------
(* The loop body.                                                          *)

\* the children with that tag, last first
findall_Reversed(child, tag) ==
    LET sel == SelectSeq(child.children, LAMBDA c : c.tag = tag)
    IN  [n \in 1..Len(sel) |-> sel[Len(sel) + 1 - n]]

\* Element.findall(tag): the children with that tag, in document order
findall(child, tag) == SelectSeq(child.children, LAMBDA c : c.tag = tag)

\* dict.get(key, "") : the default is the empty string
get_Empty(attrib, key, default) == IF key \in DOMAIN attrib THEN attrib[key] ELSE <<>>

\* dict.get(key, default)
get(attrib, key, default) == IF key \in DOMAIN attrib THEN attrib[key] ELSE default

\* attrib[key] raises KeyError
Missing(node, key) == key \notin DOMAIN node.attrib

\* the comparison of the filter ignores case
FilterOut_IgnoreCase(child, t) ==
    Len(t) # 0 /\ Lower(child.attrib["tech"]) # Lower(t)

\* line 56: the entry is left out by the technology filter
FilterOut(child, t) == Len(t) # 0 /\ child.attrib["tech"] # t

\* line 56 raises: attrib["tech"] is evaluated only when a tag is set
FilterRaises(child, t) == Len(t) # 0 /\ Missing(child, "tech")

\* attrib["varname"] in place of attrib.get("varname", ...)
ParamRaises_Varname(arg) == Missing(arg, "type") \/ Missing(arg, "varname")

\* lines 65-66 raise: attrib["type"]
ParamRaises(arg) == Missing(arg, "type")

\* line 79 raises: attribs["name"]
InstrRaises(instr) == Missing(instr, "name")

\* line 67: one parameter of the signature
FormatParam(arg) ==
    CBEIGE \o arg.attrib["type"] \o CBLUE \o <<" ">>
        \o get(arg.attrib, "varname", <<BS>>) \o <<",", " ">>

RECURSIVE FormatParams(_)
FormatParams(args) ==
    IF args = <<>> THEN <<>>
    ELSE FormatParam(Head(args)) \o FormatParams(Tail(args))

\* lines 62-68: intrinsic_name
Signature(child) ==
    StripLast2(child.attrib["name"] \o <<"(">>
                   \o FormatParams(findall(child, "parameter"))) \o <<")">>

\* the option is not consulted
SkipEntry_Always(instr_no, skipzero) == instr_no = 0

\* line 70: the entry is skipped for having no instruction
SkipEntry(instr_no, skipzero) == instr_no = 0 /\ skipzero

\* the one-line layout is taken for every entry that has instructions
HeaderEnd_AnyInstr(instr_no) == IF instr_no >= 1 THEN <<":", " ">> ELSE <<NL>>

\* lines 72-75: what print() writes after the signature
HeaderEnd(instr_no) == IF instr_no = 1 THEN <<":", " ">> ELSE <<NL>>

\* line 81: one instruction line
FormatInstr(instr) ==
    CGREEN \o Lower(instr.attrib["name"]) \o CEND \o <<" ">>
        \o get(instr.attrib, "form", <<BS>>) \o <<NL>>

\* The number of leading instructions printed before one raises.
RECURSIVE GoodPrefix(_)
GoodPrefix(instrs) ==
    IF instrs = <<>> \/ InstrRaises(Head(instrs)) THEN 0
    ELSE 1 + GoodPrefix(Tail(instrs))

\* lines 55-81: one iteration of the loop on the k-th child: what it prints
\* and whether it ends by raising KeyError.
Iterate(k, child, t, skipzero) ==
    LET instructions == findall(child, "instruction")
        instr_no == Len(instructions)
        params == findall(child, "parameter")
        good == GoodPrefix(instructions)
    IN  IF FilterRaises(child, t) THEN [raised |-> TRUE, prints |-> <<>>]
        ELSE IF FilterOut(child, t) THEN [raised |-> FALSE, prints |-> <<>>]
        ELSE IF Missing(child, "name") THEN [raised |-> TRUE, prints |-> <<>>]
        ELSE IF \E j \in 1..Len(params) : ParamRaises(params[j])
             THEN [raised |-> TRUE, prints |-> <<>>]
        ELSE IF SkipEntry(instr_no, skipzero) THEN [raised |-> FALSE, prints |-> <<>>]
        ELSE [raised |-> good < instr_no,
              prints |->
                  <<[entry |-> k, kind |-> "sig",
                     text |-> CBLUE \o Signature(child) \o CEND \o HeaderEnd(instr_no)]>>
                  \o [j \in 1..good |->
                         [entry |-> k, kind |-> "instr",
                          text |-> FormatInstr(instructions[j])]]]

----------------------------------------------------------------------------
(* The script.                                                             *)

Init ==
    /\ SKIPZERO \in BOOLEAN
    /\ argv \in Argvs
    /\ pc = "args"
    /\ tech = <<>>
    /\ filename = <<>>
    /\ parsed = FALSE
    /\ doc = <<>>
    /\ i = 1
    /\ out = <<>>
    /\ err = "none"
    /\ code = 0

\* the count is compared with 3
EnoughArgs_Three(args) == Len(args) >= 3

\* line 44: there is a path argument
EnoughArgs(args) == Len(args) >= 2

\* line 50: there is a tag argument
HasTag(args) == Len(args) = 3

\* lines 42-51
ParseArgs ==
    /\ pc = "args"
    /\ IF EnoughArgs(argv)
       THEN /\ filename' = argv[2]
            /\ tech' = IF HasTag(argv) THEN argv[3] ELSE <<>>
            /\ pc' = "parse"
            /\ UNCHANGED <<out, code>>
       ELSE /\ out' = Append(out, [entry |-> 0, kind |-> "usage",
                                   text |-> UsageMessage \o <<NL>>])
            /\ pc' = "exit"
            /\ code' = 1
            /\ UNCHANGED <<filename, tech>>
    /\ UNCHANGED <<SKIPZERO, argv, parsed, doc, i, err>>

\* line 53: xml.parse returns the tree of a well-formed file
Parse ==
    /\ pc = "parse"
    /\ \E d \in Docs : doc' = d
    /\ parsed' = TRUE
    /\ pc' = "loop"
    /\ UNCHANGED <<SKIPZERO, argv, tech, filename, i, out, err, code>>

\* line 53: xml.parse raises (no such file, or not well-formed); the
\* uncaught exception ends the interpreter with status 1
ParseFail ==
    /\ pc = "parse"
    /\ err' = "ParseError"
    /\ pc' = "exit"
    /\ code' = 1
    /\ UNCHANGED <<SKIPZERO, argv, tech, filename, parsed, doc, i, out>>

\* lines 55-81: one iteration of the for loop
Loop ==
    /\ pc = "loop"
    /\ i <= Len(doc)
    /\ LET r == Iterate(i, doc[i], tech, SKIPZERO)
       IN  /\ out' = out \o r.prints
           /\ IF r.raised
              THEN /\ err' = "KeyError"
                   /\ pc' = "exit"
                   /\ code' = 1
                   /\ i' = i
              ELSE /\ i' = i + 1
                   /\ UNCHANGED <<err, pc, code>>
    /\ UNCHANGED <<SKIPZERO, argv, tech, filename, parsed, doc>>

\* the loop is exhausted and the script ends
Finish ==
    /\ pc = "loop"
    /\ i > Len(doc)
    /\ pc' = "exit"
    /\ code' = 0
    /\ UNCHANGED <<SKIPZERO, argv, tech, filename, parsed, doc, i, out, err>>

Next == ParseArgs \/ Parse \/ ParseFail \/ Loop \/ Finish

Spec == Init /\ [][Next]_vars

----------------------------------------------------------------------------
(* Vocabulary of the properties.  The children of an entry are read off    *)
(* the document directly, not through the operators of the loop body.      *)

RECURSIVE Tagged(_, _)
Tagged(cs, tag) ==
    IF cs = <<>> THEN <<>>
    ELSE (IF Head(cs).tag = tag THEN <<Head(cs)>> ELSE <<>>) \o Tagged(Tail(cs), tag)

ParamsOf(k) == Tagged(doc[k].children, "parameter")
InstrsOf(k) == Tagged(doc[k].children, "instruction")

Has(node, key) == key \in DOMAIN node.attrib

\* the print records of the k-th entry
Block(k) == SelectSeq(out, LAMBDA r : r.entry = k)
Printed(k) == Block(k) # <<>>

\* the loop has completed its iteration on the k-th entry
Processed(k) == k \in 1..Len(doc) /\ k < i

RECURSIVE Flatten(_)
Flatten(rs) == IF rs = <<>> THEN <<>> ELSE Head(rs).text \o Flatten(Tail(rs))

IsColor(c) == c \in {"ESC[94m", "ESC[92m", "ESC[0m", "ESC[36m"}
StripColors(s) == SelectSeq(s, LAMBDA c : ~IsColor(c))

Count(s, c) == Cardinality({n \in 1..Len(s) : s[n] = c})
EndsWith(s, e) == Len(s) >= Len(e) /\ SubSeq(s, Len(s) - Len(e) + 1, Len(s)) = e
StartsWith(s, b) == Len(s) >= Len(b) /\ SubSeq(s, 1, Len(b)) = b
Contains(s, sub) ==
    \E n \in 0..(Len(s) - Len(sub)) : SubSeq(s, n + 1, n + Len(sub)) = sub

\* one line: a single line break, at the end
OneLine(s) == EndsWith(s, <<NL>>) /\ Count(s, NL) = 1

\* the k-th entry passes the technology filter
Retained(k) == tech = <<>> \/ (Has(doc[k], "tech") /\ doc[k].attrib["tech"] = tech)

\* the skip rule removes the k-th entry
Skipped(k) == SKIPZERO /\ InstrsOf(k) = <<>>

\* `type varname`, the placeholder standing for a missing varname
RenderParam(p) ==
    p.attrib["type"] \o <<" ">>
        \o (IF Has(p, "varname") THEN p.attrib["varname"] ELSE <<BS>>)

\* the parameters joined by ", "
RECURSIVE JoinParams(_)
JoinParams(ps) ==
    IF ps = <<>> THEN <<>>
    ELSE IF Len(ps) = 1 THEN RenderParam(ps[1])
    ELSE RenderParam(Head(ps)) \o <<",", " ">> \o JoinParams(Tail(ps))

ExpectedSignature(k) ==
    doc[k].attrib["name"] \o <<"(">> \o JoinParams(ParamsOf(k)) \o <<")">>

\* the text of the signature print of a printed entry, without colour codes
PrintedSignature(k) == StripColors(Block(k)[1].text)

RECURSIVE ConcatTypes(_)
ConcatTypes(ps) ==
    IF ps = <<>> THEN <<>> ELSE Head(ps).attrib["type"] \o ConcatTypes(Tail(ps))

\* every node carries the attributes the schema requires
Conforming(d) ==
    \A k \in 1..Len(d) :
        /\ Has(d[k], "name") /\ Has(d[k], "tech")
        /\ \A j \in 1..Len(d[k].children) :
               IF d[k].children[j].tag = "parameter"
               THEN Has(d[k].children[j], "type")
               ELSE Has(d[k].children[j], "name")

\* the k-th entry lacks an attribute that the loop body reads without default
LacksRequired(k) ==
    \/ tech # <<>> /\ ~Has(doc[k], "tech")
    \/ ~Has(doc[k], "name")
    \/ \E j \in 1..Len(ParamsOf(k)) : ~Has(ParamsOf(k)[j], "type")
    \/ \E j \in 1..Len(InstrsOf(k)) : ~Has(InstrsOf(k)[j], "name")

----------------------------------------------------------------------------
(* C1: with a non-empty tag, an entry is printed if and only if its tech   *)
(* equals the tag exactly and the skip rule does not remove it; with no    *)
(* tag, every entry the skip rule does not remove is printed; a tag that   *)
(* matches no entry gives empty output and no error.                       *)
C1_TagFilter ==
    /\ \A k \in 1..Len(doc) :
           /\ Printed(k) => Retained(k) /\ ~Skipped(k)
           /\ Processed(k) /\ Retained(k) /\ ~Skipped(k) => Printed(k)
    /\ (/\ parsed
        /\ tech # <<>>
        /\ \A k \in 1..Len(doc) : Has(doc[k], "tech") /\ doc[k].attrib["tech"] # tech)
       => out = <<>> /\ err = "none" /\ code = 0

\* a run with the tag S2 ended after printing one entry and filtering out another
C1_Witness ==
    /\ pc = "exit" /\ err = "none" /\ tech = <<"S", "2">>
    /\ \E k \in 1..Len(doc) : Printed(k)
    /\ \E k \in 1..Len(doc) : Has(doc[k], "tech") /\ doc[k].attrib["tech"] = <<"A">>

(* C2: the signature printed for an entry without parameters is the full   *)
(* name followed by ().                                                    *)
C2_ZeroParams ==
    \A k \in 1..Len(doc) :
        Printed(k) /\ ParamsOf(k) = <<>>
        => \/ PrintedSignature(k) = doc[k].attrib["name"] \o <<"(", ")", NL>>
           \/ PrintedSignature(k) = doc[k].attrib["name"] \o <<"(", ")", ":", " ">>

(* C3, as stated: after the parse no run ends in an error, whatever the    *)
(* nodes carry or lack.                                                    *)
C3_NeverFails == parsed => err = "none" /\ code = 0

(* C3, amended: when every entry carries name and tech, every parameter    *)
(* type and every instruction name, the run raises no error, processes     *)
(* every entry and ends with status 0.                                     *)
C3_ConformingNeverFails ==
    parsed /\ Conforming(doc)
    => /\ err = "none" /\ code = 0
       /\ pc = "exit" => i = Len(doc) + 1

\* a run on a conforming document with a parameter without varname and an
\* instruction without form ended
C3_Witness ==
    /\ pc = "exit" /\ parsed /\ Conforming(doc) /\ tech # <<>>
    /\ \E k \in 1..Len(doc) :
           /\ Printed(k)
           /\ \E j \in 1..Len(ParamsOf(k)) : ~Has(ParamsOf(k)[j], "varname")
           /\ \E j \in 1..Len(InstrsOf(k)) : ~Has(InstrsOf(k)[j], "form")

(* C4: whenever a non-empty second argument follows the path, whatever    *)
(* the number of arguments, only entries whose tech equals it are printed. *)
C4_SecondArgFilters ==
    \A k \in 1..Len(doc) :
        Printed(k) /\ Len(argv) >= 3 /\ argv[3] # <<>>
        => Has(doc[k], "tech") /\ doc[k].attrib["tech"] = argv[3]

(* C5: with SKIPZERO set, an entry without instructions prints nothing,    *)
(* whether or not it matches the tag; with SKIPZERO unset, a retained      *)
(* entry without instructions prints its signature line and nothing else.  *)
C5_SkipRule ==
    \A k \in 1..Len(doc) :
        InstrsOf(k) = <<>>
        => /\ SKIPZERO => ~Printed(k)
           /\ ~SKIPZERO /\ Processed(k) /\ Retained(k)
              => /\ Len(Block(k)) = 1
                 /\ Block(k)[1].kind = "sig"
                 /\ OneLine(Block(k)[1].text)
                 /\ StartsWith(Block(k)[1].text, CBLUE)
                 /\ EndsWith(Block(k)[1].text, <<")">> \o CEND \o <<NL>>)

\* with SKIPZERO unset, a retained entry without instructions was printed
C5_Witness ==
    /\ ~SKIPZERO
    /\ \E k \in 1..Len(doc) : Processed(k) /\ InstrsOf(k) = <<>> /\ Printed(k)

(* C6: the blocks follow the document order of their entries, the          *)
(* parameters of a signature and the instruction lines of a block follow   *)
(* the document order, and nothing is written twice.                       *)
C6_OrderPreserved ==
    /\ \A a, b \in 1..Len(out) : a < b => out[a].entry <= out[b].entry
    /\ \A k \in 1..Len(doc) :
           Printed(k)
           => /\ Block(k)[1].kind = "sig"
              /\ SelectSeq(PrintedSignature(k), LAMBDA c : c \in {"T", "U"})
                     = ConcatTypes(ParamsOf(k))
              /\ Len(Block(k)) <= 1 + Len(InstrsOf(k))
              /\ Processed(k) => Len(Block(k)) = 1 + Len(InstrsOf(k))
              /\ \A j \in 2..Len(Block(k)) :
                     /\ Block(k)[j].kind = "instr"
                     /\ StartsWith(StripColors(Block(k)[j].text),
                                   Lower(InstrsOf(k)[j - 1].attrib["name"]))

\* two entries were printed, or one with two parameters or two instructions
C6_Witness ==
    /\ pc = "exit" /\ err = "none"
    /\ \/ \E k, l \in 1..Len(doc) : k < l /\ Printed(k) /\ Printed(l)
       \/ \E k \in 1..Len(doc) : Printed(k) /\ Len(InstrsOf(k)) = 2
                                  /\ InstrsOf(k)[1] # InstrsOf(k)[2]

(* C7: with one instruction, the signature, ": " and the instruction are   *)
(* one line; with n >= 2 instructions, the signature is a line of its own  *)
(* followed by n instruction lines; with none, the signature line alone.   *)
C7_BlockLayout ==
    \A k \in 1..Len(doc) :
        Processed(k) /\ Printed(k)
        => LET n == Len(InstrsOf(k))
               b == Block(k)
           IN  /\ Len(b) = n + 1
               /\ n = 1 => /\ OneLine(Flatten(b))
                           /\ EndsWith(b[1].text, <<":", " ">>)
                           /\ b[2].kind = "instr"
               /\ n # 1 => \A j \in 1..Len(b) : OneLine(b[j].text)
               /\ n = 0 => ~SKIPZERO

\* an entry with two instructions was printed
C7_Witness ==
    \E k \in 1..Len(doc) : Processed(k) /\ Printed(k) /\ Len(InstrsOf(k)) >= 2

(* C8: a parameter without varname is printed as its type followed by the  *)
(* placeholder, an instruction without form as its lowercased name         *)
(* followed by the placeholder; both are emitted and counted, and neither  *)
(* is the cause of an error.                                               *)
C8_MissingOptional ==
    /\ \A k \in 1..Len(doc) :
           Printed(k)
           => /\ \A j \in 1..Len(ParamsOf(k)) :
                     ~Has(ParamsOf(k)[j], "varname")
                     => Contains(PrintedSignature(k),
                                 ParamsOf(k)[j].attrib["type"] \o <<" ", BS>>)
              /\ Count(PrintedSignature(k), BS)
                     = Cardinality({j \in 1..Len(ParamsOf(k)) :
                                        ~Has(ParamsOf(k)[j], "varname")})
              /\ \A j \in 2..Len(Block(k)) :
                     ~Has(InstrsOf(k)[j - 1], "form")
                     => StripColors(Block(k)[j].text)
                            = Lower(InstrsOf(k)[j - 1].attrib["name"]) \o <<" ", BS, NL>>
              /\ Processed(k) => Len(Block(k)) = 1 + Len(InstrsOf(k))
    /\ err = "KeyError" => i \in 1..Len(doc) /\ LacksRequired(i)

\* an entry with a parameter without varname and an instruction without
\* form was printed
C8_Witness ==
    \E k \in 1..Len(doc) :
        /\ Processed(k) /\ Printed(k)
        /\ \E j \in 1..Len(ParamsOf(k)) : ~Has(ParamsOf(k)[j], "varname")
        /\ \E j \in 1..Len(InstrsOf(k)) : ~Has(InstrsOf(k)[j], "form")

C10_SignatureFormat ==
    /\ \A k \in 1..Len(doc) :
           Printed(k) /\ ParamsOf(k) # <<>>
           => PrintedSignature(k)
                  = ExpectedSignature(k) \o (IF Len(InstrsOf(k)) = 1
                                             THEN <<":", " ">> ELSE <<NL>>)
    /\ \A n \in 1..Len(out) :
           out[n].entry >= 1
           => /\ ~Contains(out[n].text, <<"S", "2">>)
              /\ ~Contains(out[n].text, <<"A">>)

\* an entry with two parameters and one instruction was printed
C10_Witness ==
    \E k \in 1..Len(doc) :
        Processed(k) /\ Printed(k) /\ Len(ParamsOf(k)) = 2 /\ Len(InstrsOf(k)) = 1

====
